---- MODULE Spec2Model ----
(***************************************************************************)
(* A model of edat: the heterogeneous Table of include/edat.h and the      *)
(* recursive-descent parser of src/parsers.cpp.                            *)
(*                                                                         *)
(* A Table owns its pools through raw pointers: storages is a vector of    *)
(* pointers to ValueStorage, so the pools live in a heap shared by every   *)
(* Table of the program; a pointer is the 1-based index of a pool in       *)
(* `heap`.  Indices kept in the program's records (nameId, storageId, idx) *)
(* are the program's 0-based indices.                                      *)
(***************************************************************************)
EXTENDS Integers, Sequences, FiniteSets, TLC

VARIABLES
    heap,      \* the pools allocated so far: heap[p] is what pointer p points to
    tbl,       \* a Table the client works on
    cpy,       \* a second Table, the target of a deep copy of tbl
    clones,    \* number of deep copies taken so far
    crashed,   \* an undefined write brought the process down
    nops,      \* number of operations done so far
    last,      \* the last operation and its arguments (history)
    order,     \* per root Table, the (name, type) of each first insertion (history)
    meta,      \* how the document being parsed was written (history)
    input,     \* the text handed to parseString
    view,      \* the cursor: offset of the view's first character in input
    pc,        \* where the parser stands
    stack,     \* the activations of parseView, the innermost last
    diags,     \* the diagnostics printed so far
    result,    \* the Table parseString returned
    typeParsers,  \* ParserSuite::typeParsers of the suite being filled
    calls      \* the addParser calls made on that suite, in order (history)

clientVars == <<tbl, cpy, clones, nops, last, order>>
parserVars == <<meta, input, view, pc, stack, diags, result>>
suiteVars == <<typeParsers, calls>>
vars == <<heap, crashed, clientVars, parserVars, suiteVars>>

(***************************************************************************)
(* Bounds of the model.                                                    *)
(***************************************************************************)
MaxOps == 3        \* operations in one run of the Table client
MaxDepth == 1      \* nesting depth of the Tables the client writes into
MaxClones == 1     \* deep copies taken in one run
MaxRegs == 3       \* addParser calls made on one ParserSuite

Names == {"a", "b", "c"}
ScalarTypes == {"int", "float"}
TableType == "Table"
Types == ScalarTypes \cup {TableType}
Values == {1, 2}

\* size_t(-1): the index of "no record"; only ever compared with sizes
NoIndex == 2147483647

(***************************************************************************)
(* struct Table                                                            *)
(***************************************************************************)
NoRecord == [nameId |-> NoIndex, storageId |-> NoIndex, idx |-> NoIndex]

EmptyTable ==
    [names |-> <<>>, records |-> <<>>, nameMap |-> <<>>,
     typeHashMap |-> <<>>, storages |-> <<>>]

\* std::unordered_map::emplace: inserts unless the key is already there
emplace(m, k, v) == m @@ (k :> v)

findIndex(t, name) ==
    IF name \in DOMAIN t.nameMap
    THEN t.records[t.nameMap[name] + 1]
    ELSE NoRecord

\* the unchecked cast of storages[storageId]: whatever pool the pointer names
getTypedStorage(t, h, storageId) == h[t.storages[storageId + 1]]

getStorageByType(t, T) ==
    IF T \in DOMAIN t.typeHashMap THEN t.typeHashMap[T] ELSE NoIndex

\* the record of name addresses a pool, and that pool is the pool of type T
hasTyped(t, T, name) ==
    LET rec == findIndex(t, name)
    IN  /\ rec.storageId < Len(t.storages)
        /\ rec.storageId = getStorageByType(t, T)

\* mutant of getOr: reads the first slot of the pool, whatever the record's idx
getOrFirstSlot(t, h, T, name, def) ==
    LET rec == findIndex(t, name)
    IN  IF hasTyped(t, T, name)
        THEN getTypedStorage(t, h, rec.storageId).storage[1]
        ELSE def

getOr(t, h, T, name, def) ==
    LET rec == findIndex(t, name)
    IN  IF hasTyped(t, T, name)
        THEN getTypedStorage(t, h, rec.storageId).storage[rec.idx + 1]
        ELSE def

\* mutant of getAll: looks the name up by the record's idx, not its nameId
getAllNameByIdx(t, h, T) ==
    IF T \notin DOMAIN t.typeHashMap
    THEN <<>>
    ELSE LET storageId == t.typeHashMap[T]
             tstorage == getTypedStorage(t, h, storageId)
             hits == SelectSeq(t.records, LAMBDA r : r.storageId = storageId)
         IN  [i \in 1..Len(hits) |->
                 <<t.names[hits[i].idx + 1], tstorage.storage[hits[i].idx + 1]>>]

\* getAll<T>: the sequence of (name, value) pairs handed to the visitor
getAll(t, h, T) ==
    IF T \notin DOMAIN t.typeHashMap
    THEN <<>>
    ELSE LET storageId == t.typeHashMap[T]
             tstorage == getTypedStorage(t, h, storageId)
             hits == SelectSeq(t.records, LAMBDA r : r.storageId = storageId)
         IN  [i \in 1..Len(hits) |->
                 <<t.names[hits[i].nameId + 1], tstorage.storage[hits[i].idx + 1]>>]

\* mutant of getOrCreateStorageForType: allocates a pool on every call
getOrCreateStorageAlways(t, h, T) ==
    [t |-> [t EXCEPT !.typeHashMap = emplace(@, T, Len(t.storages)),
                     !.storages = Append(@, Len(h) + 1)],
     h |-> Append(h, [type |-> T, storage |-> <<>>]),
     storageId |-> Len(t.storages)]

\* getOrCreateStorageForType<T>: the table and heap after the call
getOrCreateStorageForType(t, h, T) ==
    IF T \in DOMAIN t.typeHashMap
    THEN [t |-> t, h |-> h, storageId |-> t.typeHashMap[T]]
    ELSE [t |-> [t EXCEPT !.typeHashMap = emplace(@, T, Len(t.storages)),
                          !.storages = Append(@, Len(h) + 1)],
          h |-> Append(h, [type |-> T, storage |-> <<>>]),
          storageId |-> Len(t.storages)]

(***************************************************************************)
(* The write of set<T> into an existing record whose pool holds another    *)
(* type goes through an unchecked cast of the pool pointer: undefined      *)
(* behaviour.  The builds differ in what it does: the bytes of the value   *)
(* land in the other pool (any of its slots may change, to any value of    *)
(* the pool's type), or the process dies.                                  *)
(***************************************************************************)
garbage(T) ==
    IF T \in ScalarTypes THEN Values
    ELSE IF T = TableType THEN {EmptyTable}
    ELSE {<<>>}

Clobbered(p) ==
    {[p EXCEPT !.storage =
         [i \in 1..Len(p.storage) |-> IF i \in S THEN g[i] ELSE p.storage[i]]] :
     S \in SUBSET (1..Len(p.storage)),
     g \in [1..Len(p.storage) -> garbage(p.type)]}

\* mutant of setExisting: returns without writing the value
setExistingStale(t, h, T, name, value) ==
    {[t |-> t, ub |-> FALSE, crash |-> FALSE, h |-> h]}

\* set<T>, the branch taken when the name has a record (edat.h:121-125): the
\* value is written through the cast pool pointer.  No check, no error result.
setExisting(t, h, T, name, value) ==
    LET rec == findIndex(t, name)
        p == t.storages[rec.storageId + 1]
    IN  IF h[p].type = T
        THEN {[t |-> t, ub |-> FALSE, crash |-> FALSE,
               h |-> [h EXCEPT ![p].storage[rec.idx + 1] = value]]}
        ELSE {[t |-> t, ub |-> TRUE, crash |-> FALSE,
               h |-> [h EXCEPT ![p] = q]] : q \in Clobbered(h[p])}
             \cup {[t |-> t, ub |-> TRUE, crash |-> TRUE, h |-> h]}

\* set<T>, the branch that creates the field (edat.h:127-140)
setNew(t, h, T, name, value) ==
    LET c == getOrCreateStorageForType(t, h, T)
        p == c.t.storages[c.storageId + 1]
        idx == Len(c.h[p].storage)
        nameId == Len(c.t.names)
        recordIdx == Len(c.t.records)
    IN  {[t |-> [c.t EXCEPT
                   !.names = Append(@, name),
                   !.records = Append(@, [nameId |-> nameId,
                                          storageId |-> c.storageId,
                                          idx |-> idx]),
                   !.nameMap = emplace(@, name, recordIdx)],
          h |-> [c.h EXCEPT ![p].storage = Append(@, value)],
          ub |-> FALSE, crash |-> FALSE]}

\* mutant of set: never looks the name up, always creates the field
setAlwaysAppends(t, h, T, name, value) == setNew(t, h, T, name, value)

\* set<T>(name, value): the set of outcomes [t, h, ub, crash]
set(t, h, T, name, value) ==
    IF findIndex(t, name).storageId < Len(t.storages)
    THEN setExisting(t, h, T, name, value)
    ELSE setNew(t, h, T, name, value)

(***************************************************************************)
(* cloneTable: the deep copy.  Every pool of the source is duplicated into *)
(* a newly allocated pool; the Tables held in a pool of Tables are cloned  *)
(* in turn.  The names, records and maps are copied by value.              *)
(***************************************************************************)
RECURSIVE cloneTable(_, _)
RECURSIVE cloneValues(_, _)
RECURSIVE clonePoolsFrom(_, _, _)

cloneValues(vals, h) ==
    IF Len(vals) = 0
    THEN [vals |-> <<>>, h |-> h]
    ELSE LET first == cloneTable(Head(vals), h)
             rest == cloneValues(Tail(vals), first.h)
         IN  [vals |-> <<first.t>> \o rest.vals, h |-> rest.h]

clonePoolsFrom(t, h, k) ==
    IF k > Len(t.storages)
    THEN [storages |-> <<>>, h |-> h]
    ELSE LET src == h[t.storages[k]]
             inner == IF src.type = TableType
                      THEN cloneValues(src.storage, h)
                      ELSE [vals |-> src.storage, h |-> h]
             h1 == Append(inner.h, [type |-> src.type, storage |-> inner.vals])
             rest == clonePoolsFrom(t, h1, k + 1)
         IN  [storages |-> <<Len(h1)>> \o rest.storages, h |-> rest.h]

\* mutant of cloneTable: copies the pool pointers instead of the pools
cloneTableShallow(t, h) == [t |-> t, h |-> h]

cloneTable(t, h) ==
    LET c == clonePoolsFrom(t, h, 1)
    IN  [t |-> [t EXCEPT !.storages = c.storages], h |-> c.h]

(***************************************************************************)
(* Tables nested in a Table: a path of names, each resolved the way        *)
(* get<Table> resolves it.  The Table object itself lives in the slot of   *)
(* its parent's pool of Tables.                                            *)
(***************************************************************************)
Front(s) == SubSeq(s, 1, Len(s) - 1)
Last(s) == s[Len(s)]

RECURSIVE pathsUpTo(_)
pathsUpTo(n) ==
    IF n = 0 THEN {<<>>}
    ELSE pathsUpTo(n - 1) \cup
         {Append(p, x) : p \in pathsUpTo(n - 1), x \in Names}

Paths == pathsUpTo(MaxDepth)

RECURSIVE hasTableAt(_, _, _)
hasTableAt(t, h, path) ==
    IF Len(path) = 0 THEN TRUE
    ELSE IF ~hasTyped(t, TableType, Head(path)) THEN FALSE
    ELSE hasTableAt(getOr(t, h, TableType, Head(path), EmptyTable), h, Tail(path))

RECURSIVE tableAt(_, _, _)
tableAt(t, h, path) ==
    IF Len(path) = 0 THEN t
    ELSE tableAt(getOr(t, h, TableType, Head(path), EmptyTable), h, Tail(path))

\* the (pointer, 1-based slot) that holds the Table at a non-empty path
slotOf(t, h, path) ==
    LET parent == tableAt(t, h, Front(path))
        rec == findIndex(parent, Last(path))
    IN  <<parent.storages[rec.storageId + 1], rec.idx + 1>>

\* the heap once the Table at path has become out.t and the heap out.h
storeBack(t, path, h, out) ==
    IF Len(path) = 0 THEN out.h
    ELSE LET sl == slotOf(t, h, path)
         IN  [out.h EXCEPT ![sl[1]].storage[sl[2]] = out.t]

(***************************************************************************)
(* The client of a Table: set<T> on tbl, on cpy or on a Table nested in    *)
(* them, and the deep copy of tbl into cpy.                                *)
(***************************************************************************)
Roots == {"tbl", "cpy"}

rootTable(r) == IF r = "tbl" THEN tbl ELSE cpy

tableOf(tb, cp, r) == IF r = "tbl" THEN tb ELSE cp

\* error: the error result of the call; set returns void and throws nothing
NoOp == [op |-> "none", root |-> "tbl", path |-> <<>>, T |-> "int",
         name |-> "a", value |-> 0, ub |-> FALSE, error |-> FALSE]

Init ==
    /\ heap = <<>>
    /\ tbl = EmptyTable
    /\ cpy = EmptyTable
    /\ clones = 0
    /\ crashed = FALSE
    /\ nops = 0
    /\ last = NoOp
    /\ order = [r \in Roots |-> <<>>]
    /\ meta = <<>> /\ input = <<>> /\ view = 0 /\ pc = "idle"
    /\ stack = <<>> /\ diags = <<>> /\ result = EmptyTable
    /\ typeParsers = <<>> /\ calls = <<>>

DoSet(r, path, T, name, value) ==
    /\ ~crashed
    /\ nops < MaxOps
    /\ r = "cpy" => clones > 0     \* the copy exists once cloneTable returned it
    /\ hasTableAt(rootTable(r), heap, path)
    /\ \E out \in set(tableAt(rootTable(r), heap, path), heap, T, name, value) :
          /\ heap' = storeBack(rootTable(r), path, heap, out)
          /\ tbl' = IF r = "tbl" /\ Len(path) = 0 THEN out.t ELSE tbl
          /\ cpy' = IF r = "cpy" /\ Len(path) = 0 THEN out.t ELSE cpy
          /\ crashed' = out.crash
          /\ last' = [op |-> "set", root |-> r, path |-> path, T |-> T,
                      name |-> name, value |-> value, ub |-> out.ub,
                      error |-> FALSE]
    /\ order' = IF Len(path) = 0 /\ \A k \in 1..Len(order[r]) : order[r][k].name # name
                THEN [order EXCEPT ![r] = Append(@, [name |-> name, T |-> T])]
                ELSE order
    /\ nops' = nops + 1
    /\ UNCHANGED <<clones, parserVars, suiteVars>>

SetScalar ==
    \E r \in Roots, path \in Paths, T \in ScalarTypes, name \in Names, v \in Values :
        DoSet(r, path, T, name, v)

SetTable ==
    \E r \in Roots, path \in Paths, name \in Names :
        DoSet(r, path, TableType, name, EmptyTable)

Clone ==
    /\ ~crashed
    /\ nops < MaxOps
    /\ clones < MaxClones
    /\ LET c == cloneTable(tbl, heap)
       IN  /\ cpy' = c.t
           /\ heap' = c.h
    /\ clones' = clones + 1
    /\ nops' = nops + 1
    /\ last' = [NoOp EXCEPT !.op = "clone"]
    /\ order' = [order EXCEPT !["cpy"] = order["tbl"]]
    /\ UNCHANGED <<tbl, crashed, parserVars, suiteVars>>

Next == SetScalar \/ SetTable \/ Clone

Spec == Init /\ [][Next]_vars

(***************************************************************************)
(* The text and the cursor of the parser (src/parsers.cpp).  A text is a   *)
(* sequence of characters; the cursor (the string_view) is the offset of   *)
(* its first character in the buffer, its size is what remains.  The       *)
(* buffer is a std::string, so the character at offset Len(inp) is its     *)
(* terminating NUL: the primitives read it when the view is empty.  What   *)
(* lies beyond the NUL is not the program's.                               *)
(***************************************************************************)
NUL == "NUL"
VT == "VT"
QUOTE == "\""

charAt(inp, i) == IF i < Len(inp) THEN inp[i + 1] ELSE NUL

Digits == <<"0", "1", "2", "3", "4", "5", "6", "7", "8", "9">>

Letters ==
    {"a", "b", "c", "d", "e", "f", "g", "h", "i", "j", "k", "l", "m",
     "n", "o", "p", "q", "r", "s", "t", "u", "v", "w", "x", "y", "z",
     "A", "B", "C", "D", "E", "F", "G", "H", "I", "J", "K", "L", "M",
     "N", "O", "P", "Q", "R", "S", "T", "U", "V", "W", "X", "Y", "Z"}

isDigit(ch) == \E d \in 1..10 : Digits[d] = ch

isWhitespace(ch) == ch = " " \/ ch = "\t"

isLineBreak(ch) == ch = "\n" \/ ch = "\r" \/ ch = "\f" \/ ch = VT

isNameChar(ch) == ch \in Letters \/ isDigit(ch) \/ ch = "_"

\* the offset where a run of whitespace starting at pos ends
RECURSIVE skipWhitespace(_, _)
skipWhitespace(inp, pos) ==
    IF isWhitespace(charAt(inp, pos)) THEN skipWhitespace(inp, pos + 1) ELSE pos

RECURSIVE skipLineBreak(_, _)
skipLineBreak(inp, pos) ==
    IF isLineBreak(charAt(inp, pos)) THEN skipLineBreak(inp, pos + 1) ELSE pos

RECURSIVE parseName(_, _)
parseName(inp, pos) ==
    IF isNameChar(charAt(inp, pos)) THEN parseName(inp, pos + 1) ELSE pos

RECURSIVE parseDigits(_, _)
parseDigits(inp, pos) ==
    IF isDigit(charAt(inp, pos)) THEN parseDigits(inp, pos + 1) ELSE pos

\* skipChar: the offset after the call; it moved iff the character matched
skipChar(inp, pos, ch) == IF charAt(inp, pos) = ch THEN pos + 1 ELSE pos

\* skipEndOfLine: line breaks were skipped, or the view is empty
skipEndOfLine(inp, pos) ==
    [pos |-> skipLineBreak(inp, pos),
     ok |-> skipLineBreak(inp, pos) > pos \/ skipLineBreak(inp, pos) = Len(inp)]

\* the characters of the buffer from offset a up to offset b
text(inp, a, b) == SubSeq(inp, a + 1, b)

\* parseUntilEndOfQuotation: the offset of the next quotation mark.  NUL is
\* not a quotation mark: without one in the view the scan leaves the buffer
\* (RanOff).
RanOff == -1

RECURSIVE parseUntilEndOfQuotation(_, _)
parseUntilEndOfQuotation(inp, pos) ==
    IF pos >= Len(inp) THEN RanOff
    ELSE IF inp[pos + 1] = QUOTE THEN pos
    ELSE parseUntilEndOfQuotation(inp, pos + 1)

\* parseUntilEndOfLine, as reportErrorLocation uses it on the C string that
\* starts at lineStart: TRUE when a line break stops the scan inside the
\* buffer, FALSE when it reads on past the NUL
RECURSIVE lineEndsInBuffer(_, _)
lineEndsInBuffer(inp, pos) ==
    IF pos >= Len(inp) THEN FALSE
    ELSE IF isLineBreak(inp[pos + 1]) THEN TRUE
    ELSE lineEndsInBuffer(inp, pos + 1)

\* the value of a run of digits
RECURSIVE digitsValue(_, _)
digitsValue(s, acc) ==
    IF Len(s) = 0 \/ ~isDigit(Head(s)) THEN acc
    ELSE digitsValue(Tail(s),
                     acc * 10 + (CHOOSE d \in 0..9 : Digits[d + 1] = Head(s)))

RECURSIVE dropSpace(_)
dropSpace(s) ==
    IF Len(s) > 0 /\ (isWhitespace(Head(s)) \/ isLineBreak(Head(s)))
    THEN dropSpace(Tail(s)) ELSE s

\* std::stoi: leading space skipped, an optional sign, then digits up to the
\* first other character; no digit at all throws std::invalid_argument
isNeg(a) == Len(a) > 0 /\ Head(a) = "-"

unsigned(a) ==
    IF Len(a) > 0 /\ (Head(a) = "-" \/ Head(a) = "+") THEN Tail(a) ELSE a

stoiDigits(neg, b) ==
    IF Len(b) = 0 \/ ~isDigit(Head(b))
    THEN [ok |-> FALSE, v |-> 0]
    ELSE [ok |-> TRUE,
          v |-> IF neg THEN 0 - digitsValue(b, 0) ELSE digitsValue(b, 0)]

stoiSigned(a) == stoiDigits(isNeg(a), unsigned(a))

stoi(s) == stoiSigned(dropSpace(s))

\* parseArraySpecifier: -1 without '[', 0 for '[' with no digit after it
\* (the ']' is left in the view), else the number, with a ']' skipped if
\* one follows
parseArraySpecifier(inp, pos) ==
    IF charAt(inp, pos) # "["
    THEN [size |-> -1, pos |-> pos]
    ELSE LET e == parseDigits(inp, pos + 1)
         IN  IF e = pos + 1
             THEN [size |-> 0, pos |-> e]
             ELSE [size |-> stoi(text(inp, pos + 1, e)).v,
                   pos |-> skipChar(inp, e, "]")]

\* parseKey: name, type name (empty without ':') and array size
parseKey(inp, pos) ==
    LET p1 == skipWhitespace(inp, pos)
        p2 == parseName(inp, p1)
        p3 == skipWhitespace(inp, p2)
    IN  IF charAt(inp, p3) = ":"
        THEN LET p4 == skipWhitespace(inp, p3 + 1)
                 p5 == parseName(inp, p4)
                 a == parseArraySpecifier(inp, p5)
             IN  [name |-> text(inp, p1, p2), typeName |-> text(inp, p4, p5),
                  arraySize |-> a.size, pos |-> skipWhitespace(inp, a.pos)]
        ELSE [name |-> text(inp, p1, p2), typeName |-> <<>>,
              arraySize |-> -1, pos |-> p3]

\* mutant of parseValue: the closing quotation mark is left in the view
parseValueKeepsQuote(inp, pos) ==
    LET p1 == skipChar(inp, skipWhitespace(inp, pos), QUOTE)
        p2 == parseUntilEndOfQuotation(inp, p1)
    IN  IF p2 = RanOff
        THEN [ranOff |-> TRUE, val |-> <<>>, pos |-> pos]
        ELSE [ranOff |-> FALSE, val |-> text(inp, p1, p2), pos |-> p2]

\* parseValue: the text up to the next quotation mark, the quotation marks
\* around it skipped when they are there, whitespace skipped on both sides
parseValue(inp, pos) ==
    LET p1 == skipChar(inp, skipWhitespace(inp, pos), QUOTE)
        p2 == parseUntilEndOfQuotation(inp, p1)
    IN  IF p2 = RanOff
        THEN [ranOff |-> TRUE, val |-> <<>>, pos |-> pos]
        ELSE [ranOff |-> FALSE, val |-> text(inp, p1, p2),
              pos |-> skipWhitespace(inp, skipChar(inp, p2, QUOTE))]

\* skipCopyOperator and parseCopyExpression: the source name after "<-"
parseCopyExpression(inp, pos) ==
    LET p1 == skipWhitespace(inp, pos)
    IN  IF charAt(inp, p1) = "<" /\ charAt(inp, p1 + 1) = "-"
        THEN LET p2 == skipWhitespace(inp, p1 + 2)
                 p3 == parseName(inp, p2)
             IN  [copyFrom |-> text(inp, p2, p3), pos |-> p3]
        ELSE [copyFrom |-> <<>>, pos |-> pos]

(***************************************************************************)
(* ParserSuite and the converters the sample registers (visitall.cpp).     *)
(***************************************************************************)
\* std::stof on digits with an optional fraction, in thousandths; exponents
\* are not part of the texts parsed here
\* the length of the run of digits s starts with
RECURSIVE digitRun(_)
digitRun(s) ==
    IF Len(s) = 0 \/ ~isDigit(Head(s)) THEN 0 ELSE 1 + digitRun(Tail(s))

\* the digits after the '.' that follows the first n characters of b
fractionOf(b, n) ==
    IF n < Len(b) /\ b[n + 1] = "." THEN SubSeq(b, n + 2, Len(b)) ELSE <<>>

\* the leading digits of f, the first of them worth w
RECURSIVE milli(_, _)
milli(f, w) ==
    IF w = 0 \/ Len(f) = 0 \/ ~isDigit(Head(f)) THEN 0
    ELSE digitsValue(<<Head(f)>>, 0) * w + milli(Tail(f), w \div 10)

stofParts(neg, b, f) ==
    IF digitRun(b) = 0 /\ digitRun(f) = 0
    THEN [ok |-> FALSE, v |-> 0]
    ELSE [ok |-> TRUE,
          v |-> IF neg THEN 0 - (digitsValue(b, 0) * 1000 + milli(f, 100))
                ELSE digitsValue(b, 0) * 1000 + milli(f, 100)]

stofDigits(neg, b) == stofParts(neg, b, fractionOf(b, digitRun(b)))

stofSigned(a) == stofDigits(isNeg(a), unsigned(a))

stof(s) == stofSigned(dropSpace(s))

\* the lambda of a LambdaParser<T>: ok is FALSE when it throws
parseValueLambda(T, str) ==
    CASE T = "int" -> stoi(str)
      [] T = "float" -> stof(str)
      [] OTHER -> [ok |-> TRUE, v |-> str]

\* std::vector<T> as a value type
vecOf(T) ==
    CASE T = "int" -> "int[]"
      [] T = "float" -> "float[]"
      [] OTHER -> "str[]"

\* the texts of a list converted one by one, as LambdaParser::parseArray does
parseArrayValues(T, strings) ==
    [i \in 1..Len(strings) |-> parseValueLambda(T, strings[i]).v]

arrayThrows(T, strings) ==
    \E i \in 1..Len(strings) : ~parseValueLambda(T, strings[i]).ok

INT_ == <<"i", "n", "t">>
FLOAT_ == <<"f", "l", "o", "a", "t">>
STR_ == <<"s", "t", "r">>

\* ParserSuite::addParser: typeParsers.emplace(typeName, parser)
addParser(suite, typeName, parser) == emplace(suite, typeName, parser)

psuite ==
    addParser(addParser(addParser(<<>>,
        INT_, [T |-> "int"]), FLOAT_, [T |-> "float"]), STR_, [T |-> "str"])

\* getTypeParser on a suite: typeParsers.find(typeName), nullptr at end()
nullptr == [T |-> "none"]
findParser(suite, typeName) ==
    IF typeName \in DOMAIN suite THEN suite[typeName] ELSE nullptr

\* getTypeParser: the parser registered under typeName, if any
hasTypeParser(typeName) == typeName \in DOMAIN psuite
getTypeParser(typeName) == psuite[typeName]

\* the value type of the parser registered under typeName
typeOf(typeName) ==
    IF hasTypeParser(typeName) THEN getTypeParser(typeName).T ELSE "none"

(***************************************************************************)
(* Filling a ParserSuite: the client calls addLambdaParser<T>(typeName, c) *)
(* any number of times, each call making a new LambdaParser<T>.            *)
(***************************************************************************)
TypeNames == {INT_, FLOAT_, STR_}
LambdaParsers == {[T |-> "int"], [T |-> "float"], [T |-> "str"]}

RegInit ==
    /\ heap = <<>>
    /\ crashed = FALSE
    /\ tbl = EmptyTable /\ cpy = EmptyTable /\ clones = 0 /\ nops = 0
    /\ last = NoOp /\ order = [r \in Roots |-> <<>>]
    /\ meta = <<>> /\ input = <<>> /\ view = 0 /\ pc = "idle"
    /\ stack = <<>> /\ diags = <<>> /\ result = EmptyTable
    /\ typeParsers = <<>>
    /\ calls = <<>>

\* ParserSuite::addLambdaParser: new LambdaParser<T>(c), then addParser
AddLambdaParser ==
    /\ Len(calls) < MaxRegs
    /\ \E typeName \in TypeNames, parser \in LambdaParsers :
          /\ typeParsers' = addParser(typeParsers, typeName, parser)
          /\ calls' = Append(calls, [typeName |-> typeName, parser |-> parser])
    /\ UNCHANGED <<heap, crashed, clientVars, parserVars>>

RegNext == AddLambdaParser

RegSpec == RegInit /\ [][RegNext]_vars

(***************************************************************************)
(* The documents parsed.  A document is written from a sequence of field   *)
(* descriptions in the layout of the spec's illustrative document; the     *)
(* description is kept in meta, the text goes to the parser.               *)
(***************************************************************************)
MaxFields == 2     \* fields at the top level of a generated document

NoText == <<>>

\* a field: kind k, its name, type name, array specifier, quoted texts,
\* whether the list is bracketed, the source of a copy, and a table's body
Field(k, name, type, spec, open, texts, from, body) ==
    [k |-> k, name |-> name, type |-> type, spec |-> spec, open |-> open,
     texts |-> texts, from |-> from, body |-> body]

Scalar(name, type, txt) ==
    Field("scalar", name, type, NoText, FALSE, <<txt>>, NoText, <<>>)
Array(name, type, spec, open, texts) ==
    Field("array", name, type, spec, open, texts, NoText, <<>>)
Bare(name, txt) ==
    Field("bare", name, NoText, NoText, FALSE, <<txt>>, NoText, <<>>)
\* a typed field written without '=': x : int 3
NoEq(name, type, txt) ==
    Field("noeq", name, type, NoText, FALSE, <<txt>>, NoText, <<>>)
TableF(name, from, body) ==
    Field("table", name, NoText, NoText, FALSE, <<>>, from, body)
\* a scalar whose value lacks the closing quotation mark: x : int = "3
Unclosed(name, type, txt) ==
    Field("unclosed", name, type, NoText, FALSE, <<txt>>, NoText, <<>>)
\* a table whose body is not closed: base = { ... up to the end of the text
OpenTable(name, body) ==
    Field("open", name, NoText, NoText, FALSE, <<>>, NoText, body)
\* a '}' where a field is expected
Close == Field("close", NoText, NoText, NoText, FALSE, <<>>, NoText, <<>>)
\* an array whose list lacks the '[' and has the ']': xs : int[2] = "1", "2"]
NoStart(name, type, spec, texts) ==
    Field("nostart", name, type, spec, FALSE, texts, NoText, <<>>)

RECURSIVE joinQuoted(_)
joinQuoted(texts) ==
    IF Len(texts) = 0 THEN <<>>
    ELSE <<QUOTE>> \o Head(texts) \o <<QUOTE>> \o
         (IF Len(texts) = 1 THEN <<>> ELSE <<",", " ">> \o joinQuoted(Tail(texts)))

Indent == <<" ", " ", " ", " ">>

RECURSIVE renderField(_)
RECURSIVE renderBody(_)
renderField(f) ==
    CASE f.k = "scalar" ->
           f.name \o <<" ", ":", " ">> \o f.type \o <<" ", "=", " ">> \o
           joinQuoted(f.texts)
      [] f.k = "noeq" ->
           f.name \o <<" ", ":", " ">> \o f.type \o <<" ">> \o f.texts[1]
      [] f.k = "bare" ->
           f.name \o <<" ", "=", " ">> \o joinQuoted(f.texts)
      [] f.k = "array" ->
           f.name \o <<" ", ":", " ">> \o f.type \o f.spec \o <<" ", "=", " ">> \o
           (IF f.open THEN <<"[">> ELSE <<>>) \o joinQuoted(f.texts) \o
           (IF f.open THEN <<"]">> ELSE <<>>)
      [] f.k = "nostart" ->
           f.name \o <<" ", ":", " ">> \o f.type \o f.spec \o <<" ", "=", " ">> \o
           joinQuoted(f.texts) \o <<"]">>
      [] f.k = "unclosed" ->
           f.name \o <<" ", ":", " ">> \o f.type \o <<" ", "=", " ">> \o
           <<QUOTE>> \o f.texts[1]
      [] f.k = "close" -> <<"}">>
      [] f.k = "open" ->
           f.name \o <<" ", "=", " ", "{", "\n">> \o renderBody(f.body)
      [] OTHER ->
           f.name \o
           (IF Len(f.from) = 0 THEN <<>> ELSE <<" ", "<", "-", " ">> \o f.from) \o
           <<" ", "=", " ", "{", "\n">> \o renderBody(f.body) \o <<"}">>

renderBody(fields) ==
    IF Len(fields) = 0 THEN <<>>
    ELSE Indent \o renderField(Head(fields)) \o <<"\n">> \o renderBody(Tail(fields))

\* the text of a document: sep after every field but the last, tail after it
RECURSIVE render(_, _, _)
render(fields, sep, tail) ==
    IF Len(fields) = 0 THEN <<>>
    ELSE IF Len(fields) = 1 THEN renderField(fields[1]) \o tail
    ELSE renderField(Head(fields)) \o sep \o render(Tail(fields), sep, tail)

X_ == <<"x">>
Y_ == <<"y">>
Z_ == <<"z">>
XS_ == <<"x", "s">>
BASE_ == <<"b", "a", "s", "e">>
DERIVED_ == <<"d", "e", "r", "i", "v", "e", "d">>
NOPE_ == <<"n", "o", "p", "e">>
NAME_ == <<"n", "a", "m", "e">>
COUNT_ == <<"c", "o", "u", "n", "t">>
SCORES_ == <<"s", "c", "o", "r", "e", "s">>
EXAMPLE_ == <<"e", "x", "a", "m", "p", "l", "e">>
BIGNUM_ == <<"b", "i", "g", "n", "u", "m">>
T7 == <<"7">>
T1 == <<"1">>
T2 == <<"2">>
T3 == <<"3">>
T20 == <<"2", "0">>
T30 == <<"3", "0">>
F10 == <<"1", ".", "0">>
F25 == <<"2", ".", "5">>
F99 == <<"9", ".", "9">>
SpecDyn == <<"[", "]">>
SpecN2 == <<"[", "2", "]">>
SpecN3 == <<"[", "3", "]">>

LeafFields ==
    {Scalar(X_, INT_, T3), Scalar(X_, INT_, T1), Scalar(Y_, INT_, T2),
     Scalar(Y_, INT_, T20), Scalar(Z_, INT_, T30), Scalar(Z_, FLOAT_, F25),
     Scalar(NAME_, STR_, EXAMPLE_), Bare(X_, T3),
     Array(XS_, INT_, SpecN2, TRUE, <<T1, T2, T3>>),
     Array(XS_, INT_, SpecN3, TRUE, <<T30>>),
     Array(XS_, INT_, SpecN2, TRUE, <<>>),
     Array(XS_, INT_, SpecDyn, TRUE, <<T1, T2>>),
     Array(XS_, INT_, SpecDyn, FALSE, <<T1, T2, T3>>)}

BaseBody == <<Scalar(X_, INT_, T1), Scalar(Y_, INT_, T2)>>
DerivedBody == <<Scalar(Y_, INT_, T20), Scalar(Z_, INT_, T30)>>

TableFields ==
    {TableF(BASE_, NoText, BaseBody),
     TableF(BASE_, NoText, <<Array(XS_, INT_, SpecN2, TRUE, <<T1, T2, T3>>)>>),
     TableF(DERIVED_, BASE_, DerivedBody),
     TableF(DERIVED_, BASE_, <<>>),
     TableF(DERIVED_, X_, DerivedBody),
     TableF(DERIVED_, NOPE_, DerivedBody)}

\* fields the grammar does not derive
FaultFields ==
    {NoEq(X_, INT_, T3),
     Scalar(X_, BIGNUM_, T7), Array(XS_, BIGNUM_, SpecN2, TRUE, <<T1, T2>>)}

FieldPool == LeafFields \cup TableFields \cup FaultFields

\* fields that end a scope early or late, and a table inside a table
ScopeFields ==
    {TableF(BASE_, NoText,
        <<Scalar(Y_, INT_, T20), NoEq(Z_, INT_, T3), Scalar(X_, INT_, T30)>>),
     TableF(BASE_, NoText,
        <<Scalar(Y_, INT_, T20), NoEq(Z_, INT_, NoText), Scalar(X_, INT_, T30)>>),
     OpenTable(BASE_, BaseBody),
     Close,
     Array(XS_, INT_, SpecN2, FALSE, <<T1, T2>>),
     NoStart(XS_, INT_, SpecN2, <<T1, T2>>),
     Unclosed(X_, INT_, T3),
     TableF(DERIVED_, NoText, <<TableF(Z_, BASE_, <<Scalar(Y_, INT_, T20)>>)>>)}

\* the fields written next to them
Siblings ==
    {Scalar(X_, INT_, T3), Scalar(Y_, INT_, T2), TableF(BASE_, NoText, BaseBody)}

RECURSIVE fieldSeqs(_)
fieldSeqs(n) ==
    IF n = 0 THEN {<<>>}
    ELSE fieldSeqs(n - 1) \cup
         {Append(fs, f) : fs \in {g \in fieldSeqs(n - 1) : Len(g) = n - 1},
                          f \in FieldPool}

\* the illustrative document of the spec (section 6)
ExampleDoc ==
    [fields |-> <<Scalar(NAME_, STR_, EXAMPLE_), Scalar(COUNT_, INT_, T3),
                  Array(SCORES_, FLOAT_, SpecDyn, FALSE, <<F10, F25, F99>>),
                  TableF(BASE_, NoText, BaseBody),
                  TableF(DERIVED_, BASE_, DerivedBody)>>,
     sep |-> <<"\n">>, tail |-> <<>>]

\* its prototype-copy part alone
CopyDoc ==
    [fields |-> <<TableF(BASE_, NoText, BaseBody),
                  TableF(DERIVED_, BASE_, DerivedBody)>>,
     sep |-> <<"\n">>, tail |-> <<>>]

\* one of ScopeFields among up to MaxFields - 1 Siblings
RECURSIVE siblingSeqs(_)
siblingSeqs(n) ==
    IF n = 0 THEN {<<>>}
    ELSE siblingSeqs(n - 1) \cup
         {Append(fs, f) : fs \in {g \in siblingSeqs(n - 1) : Len(g) = n - 1},
                          f \in Siblings}

scopeSeqs ==
    {fs \in {pre \o <<f>> \o post :
                f \in ScopeFields,
                pre \in siblingSeqs(MaxFields - 1),
                post \in siblingSeqs(MaxFields - 1)} : Len(fs) <= MaxFields}

Docs ==
    {[fields |-> fs, sep |-> sep, tail |-> tail] :
        fs \in fieldSeqs(MaxFields) \cup scopeSeqs,
        sep \in {<<"\n">>, <<";">>, <<" ">>},
        tail \in {<<>>, <<"\n">>, <<";">>}}
    \cup {ExampleDoc}

(***************************************************************************)
(* What the spec (4.3) says a document denotes: the fields of the Table,   *)
(* in order, as [name, type, val]; val of a Table is again such a list.    *)
(***************************************************************************)
upsert(env, name, type, val) ==
    IF \E i \in 1..Len(env) : env[i].name = name
    THEN [i \in 1..Len(env) |->
             IF env[i].name = name THEN [env[i] EXCEPT !.val = val] ELSE env[i]]
    ELSE Append(env, [name |-> name, type |-> type, val |-> val])

RECURSIVE denote(_, _)
denote(fields, env) ==
    IF Len(fields) = 0 THEN env
    ELSE LET f == Head(fields)
             T == typeOf(f.type)
             proto == {i \in 1..Len(env) :
                          env[i].name = f.from /\ env[i].type = TableType}
             start == IF Len(f.from) > 0 /\ proto # {}
                      THEN env[CHOOSE i \in proto : TRUE].val ELSE <<>>
             env1 ==
                CASE f.k = "scalar" /\ T # "none" ->
                       upsert(env, f.name, T, parseValueLambda(T, f.texts[1]).v)
                  [] f.k = "array" /\ T # "none" ->
                       upsert(env, f.name, vecOf(T), parseArrayValues(T, f.texts))
                  [] f.k = "table" ->
                       upsert(env, f.name, TableType, denote(f.body, start))
                  [] OTHER -> env
         IN  denote(Tail(fields), env1)

(***************************************************************************)
(* parseString and parseView (src/parsers.cpp:233-329).  One activation of *)
(* parseView is a frame: its Table res, its lineStart, and across a nested *)
(* call the name under which the nested Table will be stored, across the   *)
(* element loop the type name and the texts collected.                     *)
(***************************************************************************)
Frame(res, lineStart) ==
    [res |-> res, lineStart |-> lineStart, name |-> NoText,
     typeName |-> NoText, arr |-> <<>>]

top == stack[Len(stack)]

setTop(f) == [stack EXCEPT ![Len(stack)] = f]

\* the diagnostics the parser prints
Diag(msg) == [msg |-> msg, line |-> top.lineStart, at |-> view]

\* where the field loop stands after skipWhitespace
atLoop == skipWhitespace(input, view)

\* a field starts here: the view is not empty, no '}', no blank line
atField ==
    /\ pc = "loop"
    /\ view < Len(input)
    /\ charAt(input, atLoop) # "}"
    /\ ~skipEndOfLine(input, atLoop).ok

\* the key of the field that starts here
key == {parseKey(input, atLoop)}

\* reportError prints the line from lineStart: reportErrorLocation scans it
\* for a line break and, on the last line of a text that ends without one,
\* past the NUL (undefined).  The process goes on, or dies in the scan.
afterReport(next) ==
    IF lineEndsInBuffer(input, top.lineStart) THEN {next} ELSE {next, "dead"}

ParseInit ==
    /\ heap = <<>>
    /\ crashed = FALSE
    /\ tbl = EmptyTable /\ cpy = EmptyTable /\ clones = 0 /\ nops = 0
    /\ last = NoOp /\ order = [r \in Roots |-> <<>>]
    /\ meta \in Docs
    /\ input = render(meta.fields, meta.sep, meta.tail)
    /\ view = 0
    /\ pc = "loop"
    /\ stack = <<Frame(EmptyTable, 0)>>
    /\ diags = <<>>
    /\ result = EmptyTable
    /\ typeParsers = psuite /\ calls = <<>>

\* while (view.size() > 0) fails: return res (line 322)
EndOfInput ==
    /\ pc = "loop"
    /\ view >= Len(input)
    /\ pc' = "ret"
    /\ UNCHANGED <<heap, crashed, view, stack, diags, result>>
    /\ UNCHANGED <<clientVars, suiteVars, meta, input>>

\* skipEndOfTable: return res (lines 241-243)
EndOfTable ==
    /\ pc = "loop"
    /\ view < Len(input)
    /\ charAt(input, atLoop) = "}"
    /\ view' = atLoop + 1
    /\ pc' = "ret"
    /\ UNCHANGED <<heap, crashed, stack, diags, result>>
    /\ UNCHANGED <<clientVars, suiteVars, meta, input>>

\* a blank line, or whitespace up to the end of the text (lines 244-249)
BlankLine ==
    /\ pc = "loop"
    /\ view < Len(input)
    /\ charAt(input, atLoop) # "}"
    /\ skipEndOfLine(input, atLoop).ok
    /\ view' = skipEndOfLine(input, atLoop).pos
    /\ stack' = setTop([top EXCEPT !.lineStart = view'])
    /\ UNCHANGED <<heap, crashed, pc, diags, result>>
    /\ UNCHANGED <<clientVars, suiteVars, meta, input>>

\* a typed field without '=' (lines 253-257)
NoAssignment ==
    /\ atField
    /\ \E k \in key :
          /\ Len(k.typeName) > 0
          /\ charAt(input, k.pos) # "="
          /\ view' = k.pos
          /\ diags' = Append(diags, [Diag("no assignment operator '=' after type")
                                     EXCEPT !.at = k.pos])
    /\ \E next \in afterReport("ret") : pc' = next /\ crashed' = (next = "dead")
    /\ UNCHANGED <<heap, stack, result>>
    /\ UNCHANGED <<clientVars, suiteVars, meta, input>>

\* mutant of StoreParsed: a type without parser ends the scope
StoreParsedStops(typeName, T, name, ok, value, after) ==
    IF ~hasTypeParser(typeName)
    THEN /\ diags' = Append(diags, [msg |-> "don't have parser for type",
                                    line |-> stack[Len(stack)].lineStart,
                                    at |-> view])
         /\ pc' = "ret"
         /\ view' = after
         /\ UNCHANGED <<heap, crashed, stack>>
    ELSE IF ~ok
    THEN /\ pc' = "dead"
         /\ crashed' = TRUE
         /\ UNCHANGED <<heap, view, stack, diags>>
    ELSE \E out \in set(stack[Len(stack)].res, heap, T, name, value) :
            /\ heap' = out.h
            /\ crashed' = out.crash
            /\ pc' = IF out.crash THEN "dead" ELSE "term"
            /\ view' = after
            /\ stack' = [stack EXCEPT ![Len(stack)] =
                            [@ EXCEPT !.res = out.t, !.arr = <<>>,
                                      !.typeName = NoText]]
            /\ UNCHANGED diags

\* LambdaParser::parseValue / parseArray: the store into res, or the
\* exception of the lambda, or the warning of getTypeParser
StoreParsed(typeName, T, name, ok, value, after) ==
    IF ~hasTypeParser(typeName)
    THEN /\ diags' = Append(diags, Diag("don't have parser for type"))
         /\ pc' = "term"
         /\ view' = after
         /\ UNCHANGED <<heap, crashed>>
         /\ stack' = setTop([top EXCEPT !.arr = <<>>, !.typeName = NoText])
    ELSE IF ~ok
    THEN /\ pc' = "dead"
         /\ crashed' = TRUE
         /\ UNCHANGED <<heap, view, stack, diags>>
    ELSE \E out \in set(top.res, heap, T, name, value) :
            /\ heap' = out.h
            /\ crashed' = out.crash
            /\ pc' = IF out.crash THEN "dead" ELSE "term"
            /\ view' = after
            /\ stack' = setTop([top EXCEPT !.res = out.t, !.arr = <<>>,
                                           !.typeName = NoText])
            /\ UNCHANGED diags

\* a scalar typed field (lines 275-280)
ScalarField ==
    /\ atField
    /\ \E k \in key :
          /\ Len(k.typeName) > 0
          /\ charAt(input, k.pos) = "="
          /\ k.arraySize < 0
          /\ \E v \in {parseValue(input, k.pos + 1)} :
                IF v.ranOff
                THEN /\ pc' = "wild"
                     /\ UNCHANGED <<heap, crashed, view, stack, diags>>
                ELSE \E c \in {parseValueLambda(typeOf(k.typeName), v.val)} :
                        StoreParsed(k.typeName, typeOf(k.typeName), k.name,
                                    c.ok, c.v, v.pos)
    /\ UNCHANGED result
    /\ UNCHANGED <<clientVars, suiteVars, meta, input>>

\* an array typed field up to the start of its list (lines 258-263)
ArrayStart ==
    /\ atField
    /\ \E k \in key :
          /\ Len(k.typeName) > 0
          /\ charAt(input, k.pos) = "="
          /\ k.arraySize >= 0
          /\ \E p \in {skipWhitespace(input, k.pos + 1)} :
                /\ view' = skipChar(input, p, "[")
                /\ diags' = IF charAt(input, p) = "[" THEN diags
                            ELSE Append(diags,
                                        [Diag("no array start") EXCEPT !.at = p])
          /\ stack' = setTop([top EXCEPT !.name = k.name,
                                         !.typeName = k.typeName, !.arr = <<>>])
    /\ pc' = "array"
    /\ UNCHANGED <<heap, crashed, result>>
    /\ UNCHANGED <<clientVars, suiteVars, meta, input>>

\* one turn of while (!skipArrayEnd(view)) (lines 264-270)
ArrayElement ==
    /\ pc = "array"
    /\ charAt(input, view) # "]"
    /\ LET v == parseValue(input, view)
       IN  IF v.ranOff
           THEN /\ pc' = "wild"
                /\ UNCHANGED <<view, stack>>
           ELSE /\ view' = skipWhitespace(input, skipChar(input, v.pos, ","))
                /\ stack' = setTop([top EXCEPT !.arr = Append(@, v.val)])
                /\ pc' = "array"
    /\ UNCHANGED <<heap, crashed, diags, result>>
    /\ UNCHANGED <<clientVars, suiteVars, meta, input>>

\* the ']' of the list: the texts are converted and stored (lines 264, 271-273)
ArrayEnd ==
    /\ pc = "array"
    /\ charAt(input, view) = "]"
    /\ \E T \in {typeOf(top.typeName)} :
          StoreParsed(top.typeName, vecOf(T), top.name,
                      ~arrayThrows(T, top.arr), parseArrayValues(T, top.arr),
                      skipWhitespace(input, view + 1))
    /\ UNCHANGED result
    /\ UNCHANGED <<clientVars, suiteVars, meta, input>>

\* the head of a nested table field: name, copy clause, '=' and '{'
tableHeadAt(copyFrom, p0, eol) ==
    [copyFrom |-> copyFrom, eqAt |-> p0, hasEq |-> charAt(input, p0) = "=",
     lineStart |-> IF eol.ok THEN eol.pos ELSE top.lineStart,
     braceAt |-> skipWhitespace(input, eol.pos),
     hasBrace |-> charAt(input, skipWhitespace(input, eol.pos)) = "{"]

tableHeadFrom(copyFrom, p0) ==
    tableHeadAt(copyFrom, p0, skipEndOfLine(input, skipWhitespace(input, p0 + 1)))

tableHeadAfter(c) ==
    tableHeadFrom(c.copyFrom,
                  IF Len(c.copyFrom) > 0 THEN skipWhitespace(input, c.pos) ELSE c.pos)

tableHead(k) == {tableHeadAfter(parseCopyExpression(input, k.pos))}

\* a field without type that is not 'name = {' (lines 294-307)
BadTable ==
    /\ atField
    /\ \E k \in key : \E th \in tableHead(k) :
          /\ Len(k.typeName) = 0
          /\ ~(th.hasEq /\ th.hasBrace)
          /\ \E at \in {IF th.hasEq THEN th.braceAt ELSE th.eqAt},
                ls \in {IF th.hasEq THEN th.lineStart ELSE top.lineStart} :
                /\ view' = at
                /\ diags' = Append(diags, [msg |-> "wrong format for table",
                                           line |-> ls, at |-> at])
                /\ stack' = setTop([top EXCEPT !.lineStart = ls])
                /\ \E next \in (IF lineEndsInBuffer(input, ls) THEN {"ret"}
                                ELSE {"ret", "dead"}) :
                      pc' = next /\ crashed' = (next = "dead")
    /\ UNCHANGED <<heap, result>>
    /\ UNCHANGED <<clientVars, suiteVars, meta, input>>

\* mutant of subTable: a source that does not resolve gives a copy of res
subTableOfScope(res, h, copyFrom) ==
    IF Len(copyFrom) > 0 /\ hasTyped(res, TableType, copyFrom)
    THEN cloneTable(getOr(res, h, TableType, copyFrom, EmptyTable), h)
    ELSE cloneTable(res, h)

\* mutant of subTable: the source is looked up in res and then in the Tables
\* of the enclosing activations, the innermost first
holders(copyFrom) ==
    {d \in 1..Len(stack) : hasTyped(stack[d].res, TableType, copyFrom)}

subTableOfAncestors(res, h, copyFrom) ==
    IF Len(copyFrom) > 0 /\ holders(copyFrom) # {}
    THEN cloneTable(
             getOr(stack[CHOOSE d \in holders(copyFrom) :
                             \A e \in holders(copyFrom) : e <= d].res,
                   h, TableType, copyFrom, EmptyTable), h)
    ELSE [t |-> EmptyTable, h |-> h]

\* subTable: the deep copy of the source when res holds it as a Table
\* (lines 284-293)
subTable(res, h, copyFrom) ==
    IF Len(copyFrom) > 0 /\ hasTyped(res, TableType, copyFrom)
    THEN cloneTable(getOr(res, h, TableType, copyFrom, EmptyTable), h)
    ELSE [t |-> EmptyTable, h |-> h]

\* parseView(view, suite, &subTable): res starts as a deep copy of subTable
\* (lines 235-238)
cloneFrom(sub) == cloneTable(sub.t, sub.h)

\* 'name = {' or 'name <- source = {': the nested parseView (lines 284-308)
NestedTable ==
    /\ atField
    /\ \E k \in key : \E th \in tableHead(k) :
          /\ Len(k.typeName) = 0
          /\ th.hasEq /\ th.hasBrace
          /\ \E start \in {cloneFrom(subTable(top.res, heap, th.copyFrom))} :
                /\ heap' = start.h
                /\ view' = th.braceAt + 1
                /\ stack' = Append(setTop([top EXCEPT !.name = k.name,
                                                      !.lineStart = th.lineStart]),
                                   Frame(start.t, th.braceAt + 1))
    /\ UNCHANGED <<crashed, pc, diags, result>>
    /\ UNCHANGED <<clientVars, suiteVars, meta, input>>

\* return res: to parseString, or to the caller, which stores the nested
\* Table under its name (lines 308-309, 325-329)
Return ==
    /\ pc = "ret"
    /\ IF Len(stack) = 1
       THEN /\ result' = top.res
            /\ pc' = "done"
            /\ UNCHANGED <<heap, crashed, stack>>
       ELSE LET caller == stack[Len(stack) - 1]
            IN  \E out \in set(caller.res, heap, TableType, caller.name, top.res) :
                   /\ heap' = out.h
                   /\ crashed' = out.crash
                   /\ pc' = IF out.crash THEN "dead" ELSE "term"
                   /\ stack' = [i \in 1..(Len(stack) - 1) |->
                                   IF i = Len(stack) - 1
                                   THEN [caller EXCEPT !.res = out.t, !.name = NoText]
                                   ELSE stack[i]]
                   /\ UNCHANGED result
    /\ UNCHANGED <<view, diags>>
    /\ UNCHANGED <<clientVars, suiteVars, meta, input>>

\* the end of a field: ';', line breaks or the end of the text (lines 311-320)
Terminator ==
    /\ pc = "term"
    /\ LET p == skipWhitespace(input, view)
           eol == skipEndOfLine(input, p)
       IN  /\ charAt(input, p) = ";" \/ eol.ok
           /\ view' = IF charAt(input, p) = ";" THEN p + 1 ELSE eol.pos
           /\ stack' = IF charAt(input, p) = ";" THEN stack
                       ELSE setTop([top EXCEPT !.lineStart = eol.pos])
    /\ pc' = "loop"
    /\ UNCHANGED <<heap, crashed, diags, result>>
    /\ UNCHANGED <<clientVars, suiteVars, meta, input>>

\* anything else after a field (lines 314-318)
NoEndOfAssignment ==
    /\ pc = "term"
    /\ LET p == skipWhitespace(input, view)
       IN  /\ charAt(input, p) # ";"
           /\ ~skipEndOfLine(input, p).ok
           /\ view' = p
           /\ diags' = Append(diags, [Diag("no end of assignment") EXCEPT !.at = p])
    /\ \E next \in afterReport("ret") : pc' = next /\ crashed' = (next = "dead")
    /\ UNCHANGED <<heap, stack, result>>
    /\ UNCHANGED <<clientVars, suiteVars, meta, input>>

\* a process that died takes no further step: pc is "dead" or "wild"
ParseNext ==
    \/ EndOfInput
    \/ EndOfTable
    \/ BlankLine
    \/ NoAssignment
    \/ ScalarField
    \/ ArrayStart
    \/ ArrayElement
    \/ ArrayEnd
    \/ BadTable
    \/ NestedTable
    \/ Return
    \/ Terminator
    \/ NoEndOfAssignment

ParseSpec == ParseInit /\ [][ParseNext]_vars

(***************************************************************************)
(* What the claims speak of.                                               *)
(***************************************************************************)
\* the Table the last operation acted on, in the current state
target == tableAt(rootTable(last.root), heap, last.path)

Defaults(T) == IF T = TableType THEN {EmptyTable} ELSE {0} \cup Values

\* the fields of a Table read off names and records alone
fieldIdx(t, name) ==
    {i \in 1..Len(t.records) : t.names[t.records[i].nameId + 1] = name}

storedType(t, h, i) == h[t.storages[t.records[i].storageId + 1]].type

storedValue(t, h, i) ==
    h[t.storages[t.records[i].storageId + 1]].storage[t.records[i].idx + 1]

\* name is a field of t, stored with another type than T
storedWithOtherType(t, h, T, name) ==
    \E i \in fieldIdx(t, name) : storedType(t, h, i) # T

\* the Tables a client can reach: a root and a path that resolves
Reachable == {rp \in Roots \X Paths : hasTableAt(rootTable(rp[1]), heap, rp[2])}

\* the fields of a Table and, recursively, of the Tables nested in it
RECURSIVE content(_, _)
content(t, h) ==
    [i \in 1..Len(t.records) |->
        [name |-> t.names[t.records[i].nameId + 1],
         type |-> storedType(t, h, i),
         val |-> IF storedType(t, h, i) = TableType
                 THEN content(storedValue(t, h, i), h)
                 ELSE storedValue(t, h, i)]]

C2_TypeConflictRejected ==
    [][(/\ last'.op = "set"
        /\ storedWithOtherType(
               tableAt(tableOf(tbl, cpy, last'.root), heap, last'.path),
               heap, last'.T, last'.name))
       => (last'.error /\ ~crashed' /\ heap' = heap /\ tbl' = tbl /\ cpy' = cpy)]_vars

\* getOr on the Table t, against the fields read off its records
getOrReadsField(t) ==
    \A T \in Types : \A name \in Names : \A d \in Defaults(T) :
        LET F == {i \in fieldIdx(t, name) : storedType(t, heap, i) = T}
        IN  IF F = {}
            THEN getOr(t, heap, T, name, d) = d
            ELSE /\ Cardinality(F) = 1
                 /\ \A i \in F :
                       /\ t.records[i].idx <
                              Len(heap[t.storages[t.records[i].storageId + 1]].storage)
                       /\ getOr(t, heap, T, name, d) = storedValue(t, heap, i)

\* C3: getOr<T>(name, d) returns the stored value exactly when name is a field
\* whose stored type is T (reading an existing slot), and d otherwise.
C3_GetOr ==
    \A t \in {tableAt(rootTable(rp[1]), heap, rp[2]) : rp \in Reachable} :
        getOrReadsField(t)

\* C3 witness: one Table holds an int field a and a float field b, and c was
\* never set: all three cases of getOr are present.
C3_Witness ==
    /\ hasTyped(tbl, "int", "a") /\ getOr(tbl, heap, "int", "a", 0) = 2
    /\ hasTyped(tbl, "float", "b")
    /\ "c" \notin DOMAIN tbl.nameMap

\* C4: getAll<T> visits exactly the fields whose stored type is T, once each,
\* in the order of their first insertion, with their current values.
C4_GetAll ==
    \A r \in Roots : \A T \in Types :
        LET t == rootTable(r)
            sel == SelectSeq(order[r], LAMBDA e : e.T = T)
        IN  getAll(t, heap, T) =
                [k \in 1..Len(sel) |->
                    <<sel[k].name,
                      getOr(t, heap, T, sel[k].name,
                            IF T = TableType THEN EmptyTable ELSE 0)>>]

\* C4 witness: floats were inserted first and third, an int second, and
\* getAll<float> visits the two floats in that order.
C4_Witness ==
    /\ Len(order["tbl"]) = 3
    /\ order["tbl"][1].T = "float" /\ order["tbl"][2].T = "int"
    /\ order["tbl"][3].T = "float"
    /\ Len(getAll(tbl, heap, "float")) = 2
    /\ getAll(tbl, heap, "float")[1][1] = order["tbl"][1].name
    /\ getAll(tbl, heap, "float")[2][1] = order["tbl"][3].name

namesUnique(t) ==
    \A i, j \in 1..Len(t.names) : t.names[i] = t.names[j] => i = j

\* C5: set<T> on a name stored with type T overwrites in place: the fields,
\* their order, pools and slots are as before, every other field keeps its
\* value, and names stay unique.
C5_OverwriteInPlace ==
    [][LET t == tableAt(tableOf(tbl, cpy, last'.root), heap, last'.path)
           u == tableAt(tableOf(tbl', cpy', last'.root), heap', last'.path)
       IN  (/\ last'.op = "set"
            /\ \E i \in fieldIdx(t, last'.name) : storedType(t, heap, i) = last'.T)
           => /\ u.names = t.names
              /\ u.records = t.records
              /\ u.storages = t.storages
              /\ Len(heap') = Len(heap)
              /\ namesUnique(u)
              /\ \A i \in 1..Len(t.records) :
                    /\ storedType(u, heap', i) = storedType(t, heap, i)
                    /\ t.names[t.records[i].nameId + 1] # last'.name
                          => storedValue(u, heap', i) = storedValue(t, heap, i)
                    /\ t.names[t.records[i].nameId + 1] = last'.name
                          => storedValue(u, heap', i) = last'.value]_vars

\* C5 witness: a field of a Table with two fields was set again with its own
\* type and now holds the new value.
C5_Witness ==
    /\ last.op = "set" /\ ~last.ub /\ nops = 3 /\ last.T = "int"
    /\ Len(target.names) = 2
    /\ target.names[1] = last.name
    /\ getOr(target, heap, "int", last.name, 0) = 2

parsed == pc \in {"done", "dead", "wild"}

\* two field lists agree: names and types first, then the values
RECURSIVE sameContent(_, _)
sameContent(a, b) ==
    /\ Len(a) = Len(b)
    /\ \A i \in 1..Len(a) :
          /\ a[i].name = b[i].name
          /\ a[i].type = b[i].type
          /\ IF a[i].type = TableType
             THEN sameContent(a[i].val, b[i].val)
             ELSE a[i].val = b[i].val

\* the fields of c with a name in ns
fieldsNamed(c, ns) == SelectSeq(c, LAMBDA e : e.name \in ns)

\* the fields of the document are laid out as in the spec's illustrative
\* document: typed fields and tables, one per line
laidOutAsExample ==
    /\ meta.sep = <<"\n">>
    /\ \A i \in 1..Len(meta.fields) :
          /\ meta.fields[i].k \in {"scalar", "array", "table"}
          /\ \A j \in 1..Len(meta.fields[i].body) :
                meta.fields[i].body[j].k \in {"scalar", "array"}

\* the table fields 'D <- B = {' of the document whose B is a table field
\* written before D in the same scope
copyFields ==
    {i \in 1..Len(meta.fields) :
        /\ meta.fields[i].k = "table"
        /\ \E j \in 1..(i - 1) : /\ meta.fields[j].k = "table"
                                 /\ meta.fields[j].name = meta.fields[i].from}

\* C7: when parseString has returned for a document laid out as the spec's
\* example, for every field D <- B = { body } whose B is a Table written
\* before it, the Tables stored under D and under B are what the spec says:
\* D holds B's fields in B's order with the body's same-named fields
\* overwritten and its new fields appended, B is as it was written.  For the
\* spec's example document: derived == {x:1, y:20, z:30}, base == {x:1, y:2}.
C7_PrototypeCopy ==
    (pc = "done" /\ laidOutAsExample) =>
        \A i \in copyFields :
            sameContent(
                fieldsNamed(content(result, heap),
                            {meta.fields[i].name, meta.fields[i].from}),
                fieldsNamed(denote(meta.fields, <<>>),
                            {meta.fields[i].name, meta.fields[i].from}))

\* the document is made of well-formed scalar typed fields of registered
\* types, each ended by a line break or ';', no name written with two types
scalarsOnly ==
    /\ Len(meta.fields) > 0
    /\ meta.sep \in {<<"\n">>, <<";">>}
    /\ \A i \in 1..Len(meta.fields) :
          /\ meta.fields[i].k = "scalar"
          /\ hasTypeParser(meta.fields[i].type)
          /\ \A j \in 1..Len(meta.fields) :
                meta.fields[j].name = meta.fields[i].name
                    => meta.fields[j].type = meta.fields[i].type

\* C8: the parse of a document of well-formed scalar typed fields of
\* registered types ends with parseString returning a Table that holds, for
\* each Name, exactly one scalar field whose value is the registered converter
\* applied to the text between the quotation marks; x : int = "3" alone gives
\* a Table with exactly one field, the int x == 3.
C8_ScalarField ==
    (parsed /\ scalarsOnly) =>
        /\ pc = "done"
        /\ sameContent(content(result, heap), denote(meta.fields, <<>>))
        /\ meta.fields = <<Scalar(X_, INT_, T3)>> =>
               content(result, heap) = <<[name |-> X_, type |-> "int", val |-> 3]>>

\* C8 happens: two scalar fields of different names were parsed and stored
C8_Witness ==
    /\ pc = "done"
    /\ scalarsOnly
    /\ Len(meta.fields) = 2
    /\ Len(result.records) = 2
    /\ fieldIdx(result, X_) # {}

\* C9: the parse of  xs : int[] = "1", "2", "3"  ends with parseString
\* returning a Table with exactly one field, the array xs == [1, 2, 3].
C9_UnbracketedList ==
    (parsed /\ meta.fields = <<Array(XS_, INT_, SpecDyn, FALSE, <<T1, T2, T3>>)>>) =>
        /\ pc = "done"
        /\ sameContent(content(result, heap),
                       <<[name |-> XS_, type |-> "int[]", val |-> <<1, 2, 3>>]>>)

\* the document is one array typed field, specifier [] or [N], with a
\* bracketed list
oneBracketedArray ==
    /\ Len(meta.fields) = 1
    /\ meta.fields[1].k = "array"
    /\ meta.fields[1].open

\* C10: the parse of one typed field with an array specifier, [] or [N], and
\* a bracketed list of M quoted values ends with parseString returning a
\* Table with exactly one field, the array Name holding the M converted
\* values in the order written, whatever N and M are.
C10_BracketedList ==
    (parsed /\ oneBracketedArray) =>
        /\ pc = "done"
        /\ sameContent(content(result, heap), denote(meta.fields, <<>>))

\* fs is a list of well-formed scalar typed fields of registered types, no
\* name written with two types
scalars(fs) ==
    \A i \in 1..Len(fs) :
        /\ fs[i].k = "scalar"
        /\ hasTypeParser(fs[i].type)
        /\ \A j \in 1..Len(fs) : fs[j].name = fs[i].name => fs[j].type = fs[i].type

\* the fields written before the i-th field of the document
before(i) == SubSeq(meta.fields, 1, i - 1)

\* each field of the document is ended by a line break or ';'
terminated == meta.sep \in {<<"\n">>, <<";">>}

MissingAssignment == "no assignment operator '=' after type"

\* C11: when the i-th field of the root scope is a typed field without '='
\* and the fields before it are well-formed scalars, the parse ends with
\* parseString returning, the diagnostic of the missing '=' is the one
\* reported, and the Table holds exactly the fields written before the i-th,
\* with their values.
C11_MissingAssignment ==
    \A i \in 1..Len(meta.fields) :
        (parsed /\ terminated /\ meta.fields[i].k = "noeq" /\ scalars(before(i))) =>
            /\ pc = "done"
            /\ Len(diags) = 1 /\ diags[1].msg = MissingAssignment
            /\ sameContent(content(result, heap), denote(before(i), <<>>))

UnknownTypeName == "don't have parser for type"

\* a typed field the parser reads to its end: a scalar, or an array with a
\* size and a bracketed list
typedField(f) ==
    f.k = "scalar" \/ (f.k = "array" /\ f.open /\ f.spec # SpecDyn)

\* the fields of fs whose type name is registered
registered(fs) == SelectSeq(fs, LAMBDA f : hasTypeParser(f.type))

\* no name of fs is written as two kinds of field or with two types
oneTypePerName(fs) ==
    \A i, j \in 1..Len(fs) :
        fs[i].name = fs[j].name => (fs[i].type = fs[j].type /\ fs[i].k = fs[j].k)

\* the document is made of typed fields, some of a type that is not registered
someUnknownType ==
    /\ terminated
    /\ \A i \in 1..Len(meta.fields) : typedField(meta.fields[i])
    /\ \E i \in 1..Len(meta.fields) : ~hasTypeParser(meta.fields[i].type)
    /\ oneTypePerName(registered(meta.fields))

\* C12: in a document of typed fields, each field whose type name is not
\* registered gives one diagnostic and no field; the parse goes on to the end
\* and the Table holds what the document without those fields gives: the
\* fields before and after them, in order, with their values.
C12_UnknownTypeName ==
    (parsed /\ someUnknownType) =>
        /\ pc = "done"
        /\ Len(diags) = Len(meta.fields) - Len(registered(meta.fields))
        /\ \A k \in 1..Len(diags) : diags[k].msg = UnknownTypeName
        /\ sameContent(content(result, heap), denote(registered(meta.fields), <<>>))

\* C12 happens: a field of an unregistered type was skipped and the field
\* written after it was stored
C12_Witness ==
    /\ pc = "done"
    /\ someUnknownType
    /\ Len(meta.fields) = 2
    /\ ~hasTypeParser(meta.fields[1].type)
    /\ hasTypeParser(meta.fields[2].type)
    /\ Len(result.records) = 1
    /\ Len(diags) = 1

\* fs is made of typed fields of registered types and of tables of such
\* fields, one type per name in each scope
wellFormed(fs) ==
    /\ oneTypePerName(fs)
    /\ \A i \in 1..Len(fs) :
          \/ typedField(fs[i]) /\ hasTypeParser(fs[i].type)
          \/ /\ fs[i].k = "table"
             /\ oneTypePerName(fs[i].body)
             /\ \A j \in 1..Len(fs[i].body) :
                   typedField(fs[i].body[j]) /\ hasTypeParser(fs[i].body[j].type)

\* the i-th field is a table with a copy clause whose source is not the name
\* of a table written before it in the document
unresolved(i) ==
    /\ meta.fields[i].k = "table"
    /\ Len(meta.fields[i].from) > 0
    /\ \A j \in 1..(i - 1) :
          meta.fields[j].k = "table" => meta.fields[j].name # meta.fields[i].from

\* the document with the copy clauses that do not resolve taken out
withoutUnresolved ==
    [i \in 1..Len(meta.fields) |->
        IF unresolved(i) THEN [meta.fields[i] EXCEPT !.from = NoText]
        ELSE meta.fields[i]]

\* C13: in a well-formed document, a table field whose copy source is absent
\* from the enclosing scope or is a field of another type is parsed as if it
\* had no copy clause: no diagnostic, the Table stored under its name holds
\* exactly the fields of its body, and the fields written after it are
\* parsed and stored.
C13_PrototypeNotFound ==
    (parsed /\ terminated /\ wellFormed(meta.fields)
            /\ \E i \in 1..Len(meta.fields) : unresolved(i)) =>
        /\ pc = "done"
        /\ diags = <<>>
        /\ sameContent(content(result, heap), denote(withoutUnresolved, <<>>))
        /\ \A i \in 1..Len(meta.fields) :
              (unresolved(i) /\ \A j \in (i + 1)..Len(meta.fields) :
                                  meta.fields[j].name # meta.fields[i].name) =>
                 sameContent(
                     fieldsNamed(content(result, heap), {meta.fields[i].name}),
                     <<[name |-> meta.fields[i].name, type |-> TableType,
                        val |-> denote(meta.fields[i].body, <<>>)]>>)

\* C13 happens: the source of the copy clause is an int field of the scope,
\* the nested table holds its two own fields and was stored after the int
C13_Witness ==
    /\ pc = "done"
    /\ wellFormed(meta.fields)
    /\ Len(meta.fields) = 2
    /\ meta.fields[1].k = "scalar"
    /\ unresolved(2) /\ meta.fields[2].from = meta.fields[1].name
    /\ Len(result.records) = 2
    /\ Len(content(result, heap)[2].val) = 2

\* the addParser calls made for typeName, in order
callsFor(typeName) == SelectSeq(calls, LAMBDA c : c.typeName = typeName)

\* C14: after any sequence of addParser calls, getTypeParser finds under each
\* type name registered at least once the parser handed over by the last of
\* the calls made for that name.
C14_LastWriteWins ==
    \A typeName \in TypeNames :
        Len(callsFor(typeName)) > 0 =>
            findParser(typeParsers, typeName) =
                callsFor(typeName)[Len(callsFor(typeName))].parser

\* the fields of a body before its first field without '='
RECURSIVE beforeError(_)
beforeError(body) ==
    IF Len(body) = 0 \/ Head(body).k = "noeq" THEN <<>>
    ELSE <<Head(body)>> \o beforeError(Tail(body))

\* the i-th field is a table whose body has a field without '=' after
\* well-formed scalar fields, and the fields before the table are such too,
\* each followed by a terminator
errorInBody(i) ==
    /\ meta.fields[i].k = "table"
    /\ \E j \in 1..Len(meta.fields[i].body) : meta.fields[i].body[j].k = "noeq"
    /\ scalars(beforeError(meta.fields[i].body))
    /\ scalars(before(i))
    /\ terminated

\* C15: a field without '=' inside the body of a nested table ends that
\* table only: parseString returns, the Table stored under the nested name
\* holds the body's fields written before the error, and the fields the
\* enclosing table held before the nested table began are in the result
\* unchanged, in their places.
C15_InnermostOnly ==
    \A i \in 1..Len(meta.fields) :
        (parsed /\ errorInBody(i)) =>
            /\ pc = "done"
            /\ sameContent(
                   fieldsNamed(content(result, heap), {meta.fields[i].name}),
                   <<[name |-> meta.fields[i].name, type |-> TableType,
                      val |-> denote(beforeError(meta.fields[i].body), <<>>)]>>)
            /\ Len(content(result, heap)) >= i - 1
            /\ sameContent(SubSeq(content(result, heap), 1, i - 1),
                           denote(before(i), <<>>))

\* the document ends inside the body of a table: its last field is a table
\* of well-formed scalar fields that is not closed, after well-formed,
\* terminated scalar fields
endsInBody ==
    /\ Len(meta.fields) > 0
    /\ meta.fields[Len(meta.fields)].k = "open"
    /\ scalars(meta.fields[Len(meta.fields)].body)
    /\ scalars(before(Len(meta.fields)))
    /\ terminated
    /\ meta.tail # <<";">>

\* the fields of such a document, the open table taken as a table
asClosed ==
    [i \in 1..Len(meta.fields) |->
        IF meta.fields[i].k = "open"
        THEN TableF(meta.fields[i].name, NoText, meta.fields[i].body)
        ELSE meta.fields[i]]

\* C16: when the text ends while the body of a nested table is open,
\* parseString prints a diagnostic and returns the fields parsed so far:
\* those before the table, and the table with the fields of its body.
C16_EndOfInputInBody ==
    (parsed /\ endsInBody) =>
        /\ pc = "done"
        /\ Len(diags) > 0
        /\ sameContent(content(result, heap), denote(asClosed, <<>>))

\* the i-th field of the document is a '}' at the root, after well-formed,
\* terminated scalar fields
closeAtRoot(i) ==
    /\ meta.fields[i].k = "close"
    /\ scalars(before(i))
    /\ terminated

\* C17: when a '}' stands where a field of the root is expected, parseString
\* prints a diagnostic and returns the fields of the root parsed before it.
C17_CloseAtRoot ==
    \A i \in 1..Len(meta.fields) :
        (parsed /\ closeAtRoot(i)) =>
            /\ pc = "done"
            /\ Len(diags) > 0
            /\ sameContent(content(result, heap), denote(before(i), <<>>))

\* the i-th field is an array of a registered type with a size in its
\* specifier whose list does not start with '[', after well-formed,
\* terminated scalar fields
noArrayStart(i) ==
    /\ \/ meta.fields[i].k = "array" /\ ~meta.fields[i].open
       \/ meta.fields[i].k = "nostart"
    /\ meta.fields[i].spec # SpecDyn
    /\ hasTypeParser(meta.fields[i].type)
    /\ scalars(before(i))
    /\ terminated

\* C18: when the value of an array field does not start with '[', the scope
\* stops there: parseString prints a diagnostic and returns the Table with
\* the fields written before the array, the array not among them.
C18_NoArrayStart ==
    \A i \in 1..Len(meta.fields) :
        (parsed /\ noArrayStart(i)) =>
            /\ pc = "done"
            /\ Len(diags) > 0
            /\ sameContent(content(result, heap), denote(before(i), <<>>))

\* the names of the tables among fs
tablesIn(fs) == {fs[j].name : j \in {n \in 1..Len(fs) : fs[n].k = "table"}}

\* fs with the copy clauses taken out whose source is not a table written
\* before them in fs
inScopeOnly(fs) ==
    [j \in 1..Len(fs) |->
        IF fs[j].k = "table" /\ fs[j].from \notin tablesIn(SubSeq(fs, 1, j - 1))
        THEN [fs[j] EXCEPT !.from = NoText] ELSE fs[j]]

\* the i-th field is a table with a copy clause whose source is a table
\* written only later in the document
definedLater(i) ==
    /\ unresolved(i)
    /\ meta.fields[i].from \in
          tablesIn(SubSeq(meta.fields, i + 1, Len(meta.fields)))
    /\ wellFormed(meta.fields)

\* the i-th field is a table without copy clause whose body is made of
\* well-formed tables, one of them with a copy clause whose source is a
\* table written before the i-th field, in the enclosing scope only
definedInAncestor(i) ==
    /\ meta.fields[i].k = "table"
    /\ meta.fields[i].from = NoText
    /\ wellFormed(before(i))
    /\ wellFormed(SubSeq(meta.fields, i + 1, Len(meta.fields)))
    /\ \A j \in 1..Len(meta.fields) :
          meta.fields[j].name = meta.fields[i].name => j = i
    /\ wellFormed(meta.fields[i].body)
    /\ \E j \in 1..Len(meta.fields[i].body) :
          /\ meta.fields[i].body[j].k = "table"
          /\ meta.fields[i].body[j].from \in tablesIn(before(i))
          /\ meta.fields[i].body[j].from \notin
                tablesIn(SubSeq(meta.fields[i].body, 1, j - 1))

\* the document as the scope rule reads it
scoped ==
    [i \in 1..Len(meta.fields) |->
        IF definedInAncestor(i)
        THEN [meta.fields[i] EXCEPT !.body = inScopeOnly(@)]
        ELSE inScopeOnly(meta.fields)[i]]

\* C19: the source of a copy clause is looked up only among the fields the
\* table being parsed holds when the clause is read.  A clause that names a
\* table written later in the same scope, or a table of the enclosing
\* scope, copies nothing: the document parses without diagnostic to the
\* Table of the same document without that clause.
C19_SourceInScope ==
    (parsed /\ terminated
            /\ \E i \in 1..Len(meta.fields) :
                   definedLater(i) \/ definedInAncestor(i)) =>
        /\ pc = "done"
        /\ diags = <<>>
        /\ sameContent(content(result, heap), denote(scoped, <<>>))

\* C19 happens: base is a table of the root, derived a table after it, and
\* the table inside derived that names base holds its one own field
C19_Witness ==
    /\ pc = "done"
    /\ terminated
    /\ Len(meta.fields) = 2
    /\ meta.fields[1].k = "table" /\ Len(meta.fields[1].body) = 2
    /\ definedInAncestor(2)
    /\ Len(content(result, heap)) = 2
    /\ Len(content(result, heap)[2].val) = 1
    /\ content(result, heap)[2].val[1].type = TableType
    /\ Len(content(result, heap)[2].val[1].val) = 1

NoEndOfAssignmentMsg == "no end of assignment"

\* the document has well-formed fields with a blank, and so the first
\* character of the second field, after the value of the first
unterminated ==
    /\ meta.sep = <<" ">>
    /\ Len(meta.fields) >= 2
    /\ wellFormed(meta.fields)

\* C20: when the value of a field is followed by a character other than
\* ';', a line break or the end of the text, parseString prints one
\* diagnostic and returns the Table of the scope, in which that field is
\* (there being no earlier ones, it is all the Table holds).
C20_Terminator ==
    (parsed /\ unterminated) =>
        /\ pc = "done"
        /\ Len(diags) = 1
        /\ diags[1].msg = NoEndOfAssignmentMsg
        /\ sameContent(content(result, heap),
                       denote(SubSeq(meta.fields, 1, 1), <<>>))

\* a turn of the field loop or of the array-element loop returns, reports
\* an error, or leaves the cursor further on in the text, not beyond its end
turn ==
    pc \in {"loop", "array"} =>
        \/ pc' = "ret"
        \/ diags' # diags
        \/ pc' # "wild" /\ view < view' /\ view' <= Len(input)

\* C21: every turn of the field loop and of the array-element loop returns,
\* reports an error, or consumes at least one character of the remaining
\* text.
C21_Progress == [][turn]_vars

\* C22: the cursor stays within the text handed to parseString, and no
\* primitive has read beyond the end of that text.
C22_WithinBuffer ==
    /\ view <= Len(input)
    /\ pc # "wild"

\* the root of the document is made of terminated scalar fields of
\* registered types and of tables, whatever stands in their bodies, with
\* one type per name
scalarsAndTables ==
    /\ terminated
    /\ oneTypePerName(meta.fields)
    /\ \A i \in 1..Len(meta.fields) :
          \/ meta.fields[i].k = "scalar" /\ hasTypeParser(meta.fields[i].type)
          \/ meta.fields[i].k = "table"

\* the field e of the returned Table is one written at the root: a table
\* of that name, or a scalar of that name, type and value
writtenAtRoot(e) ==
    \E i \in 1..Len(meta.fields) :
        /\ meta.fields[i].name = e.name
        /\ IF e.type = TableType THEN meta.fields[i].k = "table"
           ELSE /\ meta.fields[i].k = "scalar"
                /\ typeOf(meta.fields[i].type) = e.type
                /\ parseValueLambda(e.type, meta.fields[i].texts[1]).v = e.val

\* C23: a field written between the '{' of a nested table and its '}' is
\* not stored into the enclosing table: every field of the Table that
\* parseString returns was written at the root of the document.
C23_ScopeContainment ==
    (pc = "done" /\ scalarsAndTables) =>
        \A k \in 1..Len(content(result, heap)) :
            writtenAtRoot(content(result, heap)[k])

(***************************************************************************)
(* The structure of a Table.                                               *)
(***************************************************************************)
\* names, records and nameMap have one entry per field, and nameMap leads
\* from each name to the record that carries it
namesAndRecords(t) ==
    /\ Len(t.names) = Len(t.records)
    /\ Cardinality(DOMAIN t.nameMap) = Len(t.records)
    /\ \A name \in DOMAIN t.nameMap :
          /\ t.nameMap[name] < Len(t.records)
          /\ t.records[t.nameMap[name] + 1].nameId < Len(t.names)
          /\ t.names[t.records[t.nameMap[name] + 1].nameId + 1] = name

\* every record addresses a slot that exists, and no two the same slot
slotsOfRecords(t, h) ==
    /\ \A i \in 1..Len(t.records) :
          /\ t.records[i].storageId < Len(t.storages)
          /\ t.records[i].idx <
                 Len(h[t.storages[t.records[i].storageId + 1]].storage)
    /\ \A i, j \in 1..Len(t.records) :
          (/\ t.records[i].storageId = t.records[j].storageId
           /\ t.records[i].idx = t.records[j].idx) => i = j

\* one pool for each type a field was created with, and no other pool
onePoolPerType(t, h) ==
    /\ Len(t.storages) = Cardinality(DOMAIN t.typeHashMap)
    /\ \A T \in DOMAIN t.typeHashMap :
          /\ t.typeHashMap[T] < Len(t.storages)
          /\ h[t.storages[t.typeHashMap[T] + 1]].type = T
    /\ \A k \in 1..Len(t.storages) :
          \E i \in 1..Len(t.records) : t.records[i].storageId = k - 1

wellStructured(t, h) ==
    namesAndRecords(t) /\ slotsOfRecords(t, h) /\ onePoolPerType(t, h)

\* the records t had are the first records of u, unchanged
sameRecords(t, u) ==
    /\ Len(u.records) >= Len(t.records)
    /\ SubSeq(u.records, 1, Len(t.records)) = t.records

\* what a step of the client leaves behind: every Table it can reach is
\* well structured, and a set left the records of its Table as they were
structureKept ==
    ~crashed' =>
        /\ \A r \in Roots : \A path \in Paths :
              hasTableAt(tableOf(tbl', cpy', r), heap', path) =>
                  wellStructured(tableAt(tableOf(tbl', cpy', r), heap', path), heap')
        /\ last'.op = "set" =>
              sameRecords(tableAt(tableOf(tbl, cpy, last'.root), heap, last'.path),
                          tableAt(tableOf(tbl', cpy', last'.root), heap', last'.path))

\* C24: after any sequence of set operations, in every Table names, records
\* and nameMap have the same size, nameMap maps each name to the record of
\* that name, every record addresses an existing slot of an existing pool,
\* no two records share a slot, there is exactly one pool per type a field
\* was created with, and a set never changes the (storageId, idx) of a
\* record made before it.
C24_TableStructure == [][structureKept]_vars

\* C24 happens: three sets made two fields of two types in one Table, the
\* last of them on a field that was there already
C24_Witness ==
    /\ nops = 3 /\ ~crashed
    /\ last.op = "set" /\ ~last.ub
    /\ Len(target.records) = 2
    /\ Len(target.storages) = 2
    /\ target.nameMap[last.name] = 0

====
